---- MODULE Spec2Model ----
(***************************************************************************)
(* Model of update_data.py: the date-range planner (get_date_ranges), the  *)
(* four aggregation queries, the cache builder (query_all_data), the       *)
(* report injector (update_html_file) and main.                            *)
(*                                                                         *)
(* Text is a sequence of one-character strings, so that find, slicing,     *)
(* strip, strftime and json.dumps are computed character by character.     *)
(* Python indices are kept 0-based, as in the source.                      *)
(***************************************************************************)
EXTENDS Integers, Sequences, FiniteSets, TLC

VARIABLES
    today,        \* datetime.now() of the run, as a proleptic Gregorian ordinal
    table,        \* rows of MART_SRDF_POSTED_TRANSACTIONS with TRANSACTION_CODE = 'PMOF'
    conn,         \* the Snowflake connection: "none", "open" or "closed"
    pc,           \* position of main / query_all_data
    date_ranges,  \* local of query_all_data: the dict get_date_ranges() returned
    idx,          \* position of the for loop over date_ranges.items()
    data_cache,   \* local of query_all_data / argument of update_html_file
    html,         \* contents of index.html
    html0,        \* contents of index.html when the run began
    writes,       \* number of times index.html was opened with mode 'w'
    exc,          \* the exception that is propagating, or NoExc
    log,          \* one record per update_html_file call: the file before it, its
                  \* argument and whether it returned
    ret           \* return value of the latest aggregator call

vars == <<today, table, conn, pc, date_ranges, idx, data_cache, html,
          html0, writes, exc, log, ret>>

----------------------------------------------------------------------------
(* Generic helpers *)

Min(a, b) == IF a < b THEN a ELSE b
Max(a, b) == IF a > b THEN a ELSE b

RECURSIVE Repeat(_, _)
\* s * n
Repeat(s, n) == IF n <= 0 THEN <<>> ELSE s \o Repeat(s, n - 1)

RECURSIVE SumOver(_, _)
\* sum of f[x] over the finite set S
SumOver(f, S) ==
    IF S = {} THEN 0
    ELSE LET x == CHOOSE y \in S : TRUE IN f[x] + SumOver(f, S \ {x})

\* all orderings of the finite set S
Perms(S) ==
    {p \in [1..Cardinality(S) -> S] : \A i, j \in 1..Cardinality(S) : i # j => p[i] # p[j]}

Digits == <<"0", "1", "2", "3", "4", "5", "6", "7", "8", "9">>

RECURSIVE NatStr(_)
\* str(n) for n >= 0
NatStr(n) == IF n < 10 THEN <<Digits[n + 1]>> ELSE NatStr(n \div 10) \o <<Digits[(n % 10) + 1]>>

\* str(n) / repr(n) of a Python int
IntStr(n) == IF n < 0 THEN <<"-">> \o NatStr(-n) ELSE NatStr(n)

RECURSIVE ZeroPad(_, _)
\* '%0wd' % n
ZeroPad(n, w) == IF Len(NatStr(n)) >= w THEN NatStr(n) ELSE Repeat(<<"0">>, w - Len(NatStr(n))) \o NatStr(n)

RECURSIVE StrNat(_)
\* the number a string of decimal digits denotes
StrNat(s) ==
    IF s = <<>> THEN 0
    ELSE StrNat(SubSeq(s, 1, Len(s) - 1)) * 10
         + (CHOOSE d \in 0..9 : Digits[d + 1] = s[Len(s)])

----------------------------------------------------------------------------
(* Python str operations used by the source *)

\* Python's clamping of a slice bound
SliceBound(s, i) == IF i < 0 THEN Max(0, Len(s) + i) ELSE Min(i, Len(s))

\* s[:i]
SliceTo(s, i) == SubSeq(s, 1, SliceBound(s, i))

\* s[j:]
SliceFrom(s, j) == SubSeq(s, SliceBound(s, j) + 1, Len(s))

\* s.find(sub, start): lowest 0-based index >= start where sub occurs, else -1
Find(s, sub, start) ==
    LET st == IF start < 0 THEN Max(0, Len(s) + start) ELSE start
        hits == {i \in st..(Len(s) - Len(sub)) :
                    /\ s[i + 1] = sub[1]
                    /\ SubSeq(s, i + 1, i + Len(sub)) = sub}
    IN IF hits = {} THEN -1 ELSE CHOOSE i \in hits : \A j \in hits : i <= j

Whitespace == {" ", "\n", "\t"}

RECURSIVE LStrip(_)
LStrip(s) == IF s # <<>> /\ Head(s) \in Whitespace THEN LStrip(Tail(s)) ELSE s

RECURSIVE RStrip(_)
RStrip(s) ==
    IF s # <<>> /\ s[Len(s)] \in Whitespace THEN RStrip(SubSeq(s, 1, Len(s) - 1)) ELSE s

\* s.strip()
Strip(s) == RStrip(LStrip(s))

----------------------------------------------------------------------------
(* Dates: datetime ordinals, timedelta, strftime('%Y-%m-%d') *)

IsLeap(y) == (y % 4 = 0) /\ ((y % 100 # 0) \/ (y % 400 = 0))

DaysInMonth(y, m) ==
    IF m = 2 THEN (IF IsLeap(y) THEN 29 ELSE 28)
    ELSE IF m \in {4, 6, 9, 11} THEN 30 ELSE 31

RECURSIVE MonthDay(_, _, _)
\* month and day of the n-th day (0-based) of year y, searching from month m
MonthDay(y, m, n) ==
    IF n < DaysInMonth(y, m) THEN <<m, n + 1>> ELSE MonthDay(y, m + 1, n - DaysInMonth(y, m))

\* <<year, month, day>> of a proleptic Gregorian ordinal (1 = 0001-01-01)
Ord2Ymd(o) ==
    LET n0   == o - 1
        n400 == n0 \div 146097
        r400 == n0 % 146097
        n100 == r400 \div 36524
        r100 == r400 % 36524
        n4   == r100 \div 1461
        r4   == r100 % 1461
        n1   == r4 \div 365
        r1   == r4 % 365
        y    == n400 * 400 + n100 * 100 + n4 * 4 + n1 + 1
    IN IF n1 = 4 \/ n100 = 4 THEN <<y - 1, 12, 31>>
       ELSE <<y>> \o MonthDay(y, 1, r1)

\* d.strftime('%Y-%m-%d')
Strftime(o) ==
    LET ymd == Ord2Ymd(o)
    IN ZeroPad(ymd[1], 4) \o <<"-">> \o ZeroPad(ymd[2], 2) \o <<"-">> \o ZeroPad(ymd[3], 2)

\* the date a 'YYYY-MM-DD' literal denotes, as the data source reads it
ParseDate(s) == <<StrNat(SubSeq(s, 1, 4)), StrNat(SubSeq(s, 6, 7)), StrNat(SubSeq(s, 9, 10))>>

\* d1 <= d2 on <<year, month, day>>
DateLeq(d1, d2) ==
    \/ d1[1] < d2[1]
    \/ d1[1] = d2[1] /\ d1[2] < d2[2]
    \/ d1[1] = d2[1] /\ d1[2] = d2[2] /\ d1[3] <= d2[3]

\* get_date_ranges(): the dict, as its items in insertion order
get_date_ranges(now) ==
    << [name |-> "last_30", start |-> Strftime(now - 30), end |-> Strftime(now)],
       [name |-> "last_60", start |-> Strftime(now - 60), end |-> Strftime(now)],
       [name |-> "last_90", start |-> Strftime(now - 90), end |-> Strftime(now)],
       [name |-> "august_2025",
        start |-> <<"2", "0", "2", "5", "-", "0", "8", "-", "0", "1">>,
        end   |-> <<"2", "0", "2", "5", "-", "0", "8", "-", "3", "1">>],
       [name |-> "september_2025",
        start |-> <<"2", "0", "2", "5", "-", "0", "9", "-", "0", "1">>,
        end   |-> <<"2", "0", "2", "5", "-", "0", "9", "-", "3", "0">>],
       [name |-> "october_2025",
        start |-> <<"2", "0", "2", "5", "-", "1", "0", "-", "0", "1">>,
        end   |-> <<"2", "0", "2", "5", "-", "1", "0", "-", "3", "1">>],
       [name |-> "november_2025",
        start |-> <<"2", "0", "2", "5", "-", "1", "1", "-", "0", "1">>,
        end   |-> <<"2", "0", "2", "5", "-", "1", "1", "-", "3", "0">>] >>

\* cache_key = f"{start_date}_{end_date}"
CacheKey(start_date, end_date) == start_date \o <<"_">> \o end_date

----------------------------------------------------------------------------
(* The data source: SQL values and the four queries' result sets *)

\* SQL NULL / Python None, and a present value
None == <<>>
Some(x) == <<x>>

RECURSIVE Gcd(_, _)
Gcd(a, b) == IF b = 0 THEN a ELSE Gcd(b, a % b)

\* the FLOAT n/d (d > 0), in lowest terms
Rat(n, d) ==
    LET g == Gcd(IF n < 0 THEN -n ELSE n, d)
    IN IF n = 0 THEN [n |-> 0, d |-> 1] ELSE [n |-> n \div g, d |-> d \div g]

\* x <= y on FLOATs
RatLeq(x, y) == x.n * y.d <= y.n * x.d

\* WHERE TRANSACTION_CODE = 'PMOF' AND POST_DATE >= '{start_date}' AND POST_DATE <= '{end_date}'
Matching(tbl, start_date, end_date) ==
    {r \in tbl : /\ DateLeq(ParseDate(start_date), r.post)
                 /\ DateLeq(r.post, ParseDate(end_date))}

\* SUM(CAST(TRANSACTION_AMOUNT AS FLOAT)) over rows: NULL when no row has an amount
SqlSum(rows) ==
    LET nn == {r \in rows : r.amount # None}
        f  == [r \in nn |-> r.amount[1]]
    IN IF nn = {} THEN None ELSE Some(Rat(SumOver(f, nn), 1))

\* AVG(CAST(TRANSACTION_AMOUNT AS FLOAT)) over rows
SqlAvg(rows) ==
    LET nn == {r \in rows : r.amount # None}
        f  == [r \in nn |-> r.amount[1]]
    IN IF nn = {} THEN None ELSE Some(Rat(SumOver(f, nn), Cardinality(nn)))

\* MIN(CAST(TRANSACTION_AMOUNT AS FLOAT)) over rows
SqlMin(rows) ==
    LET nn == {r \in rows : r.amount # None}
    IN IF nn = {} THEN None
       ELSE Some((CHOOSE r \in nn : \A q \in nn : r.amount[1] <= q.amount[1]).amount[1])

\* the row the summary query returns (cursor.fetchone())
SummaryRow(tbl, start_date, end_date) ==
    LET rows == Matching(tbl, start_date, end_date)
    IN [unique_users       |-> Cardinality({r.prn : r \in rows}),
        total_transactions |-> Cardinality(rows),
        total_volume       |-> SqlSum(rows),
        avg_deposit        |-> SqlAvg(rows)]

bucket_order ==
    << <<"$", "1", "-", "$", "2", "5", "0">>,
       <<"$", "2", "5", "0", "-", "$", "5", "0", "0">>,
       <<"$", "5", "0", "0", "-", "$", "7", "5", "0">>,
       <<"$", "7", "5", "0", "-", "$", "1", ",", "0", "0", "0">>,
       <<"$", "1", ",", "0", "0", "0", "-", "$", "1", ",", "5", "0", "0">>,
       <<"$", "1", ",", "5", "0", "0", "-", "$", "2", ",", "5", "0", "0">>,
       <<"$", "2", ",", "5", "0", "0", "+">> >>

\* the CASE expression with a first range that has no lower bound
BucketOfUnbounded(amount) ==
    IF amount = None THEN bucket_order[7]
    ELSE LET a == amount[1]
         IN IF a < 250 THEN bucket_order[1]
            ELSE IF a < 500 THEN bucket_order[2]
            ELSE IF a < 750 THEN bucket_order[3]
            ELSE IF a < 1000 THEN bucket_order[4]
            ELSE IF a < 1500 THEN bucket_order[5]
            ELSE IF a < 2500 THEN bucket_order[6]
            ELSE bucket_order[7]

\* the CASE expression of the buckets query; a comparison with NULL is not true
BucketOf(amount) ==
    IF amount = None THEN bucket_order[7]
    ELSE LET a == amount[1]
         IN IF a >= 0 /\ a < 250 THEN bucket_order[1]
            ELSE IF a >= 250 /\ a < 500 THEN bucket_order[2]
            ELSE IF a >= 500 /\ a < 750 THEN bucket_order[3]
            ELSE IF a >= 750 /\ a < 1000 THEN bucket_order[4]
            ELSE IF a >= 1000 /\ a < 1500 THEN bucket_order[5]
            ELSE IF a >= 1500 /\ a < 2500 THEN bucket_order[6]
            ELSE bucket_order[7]

\* GROUP BY bucket, with COUNT(*) and the ORDER BY key MIN(amount)
BucketGroups(tbl, start_date, end_date) ==
    LET rows == Matching(tbl, start_date, end_date)
    IN {[bucket |-> b,
         count  |-> Cardinality({r \in rows : BucketOf(r.amount) = b}),
         key    |-> SqlMin({r \in rows : BucketOf(r.amount) = b})]
        : b \in {BucketOf(r.amount) : r \in rows}}

\* p is in ORDER BY order: present keys ascending (descending when desc), NULL
\* keys all first or all last, rows with equal keys in any order
Ordered(p, desc) ==
    /\ \A i, j \in DOMAIN p :
          (i < j /\ p[i].key # None /\ p[j].key # None)
             => IF desc THEN RatLeq(p[j].key[1], p[i].key[1])
                        ELSE RatLeq(p[i].key[1], p[j].key[1])
    /\ \/ \A i, j \in DOMAIN p : (i < j /\ p[j].key = None) => p[i].key = None
       \/ \A i, j \in DOMAIN p : (i < j /\ p[i].key = None) => p[j].key = None

\* the result sets the buckets query can return (cursor.fetchall())
BucketRows(tbl, start_date, end_date) ==
    LET groups == {[bucket |-> g.bucket, count |-> g.count,
                    key |-> IF g.key = None THEN None ELSE Some(Rat(g.key[1], 1))]
                   : g \in BucketGroups(tbl, start_date, end_date)}
    IN {[i \in DOMAIN p |-> <<p[i].bucket, p[i].count>>] : p \in {q \in Perms(groups) : Ordered(q, FALSE)}}

\* GROUP BY ACH_INSTITUTION_NAME over the rows whose name IS NOT NULL
InstitutionGroups(tbl, start_date, end_date) ==
    LET rows == {r \in Matching(tbl, start_date, end_date) : r.name # None}
    IN {[name   |-> nm,
         count  |-> Cardinality({r \in rows : r.name = nm}),
         volume |-> SqlSum({r \in rows : r.name = nm})]
        : nm \in {r.name : r \in rows}}

\* LIMIT 10
Limit10(p) == SubSeq(p, 1, Min(10, Len(p)))

\* the result sets of ORDER BY count DESC LIMIT 10
TopFrequencyRows(tbl, start_date, end_date) ==
    LET groups == {[name |-> g.name, count |-> g.count, volume |-> g.volume,
                    key |-> Some(Rat(g.count, 1))]
                   : g \in InstitutionGroups(tbl, start_date, end_date)}
    IN {Limit10([i \in DOMAIN p |-> <<p[i].name[1], p[i].count, p[i].volume>>])
        : p \in {q \in Perms(groups) : Ordered(q, TRUE)}}

\* the result sets of ORDER BY volume DESC LIMIT 10
TopVolumeRows(tbl, start_date, end_date) ==
    LET groups == {[name |-> g.name, count |-> g.count, volume |-> g.volume,
                    key |-> g.volume]
                   : g \in InstitutionGroups(tbl, start_date, end_date)}
    IN {Limit10([i \in DOMAIN p |-> <<p[i].name[1], p[i].count, p[i].volume>>])
        : p \in {q \in Perms(groups) : Ordered(q, TRUE)}}

----------------------------------------------------------------------------
(* The aggregator: what each query_* function makes of the fetched rows.   *)
(* A call returns [ok |-> TRUE, val |-> <<value>>] or raises:              *)
(* [ok |-> FALSE, err |-> exception].                                      *)

Return(v) == [ok |-> TRUE, val |-> Some(v), err |-> "none"]
Raise(e) == [ok |-> FALSE, val |-> None, err |-> e]

\* query_summary_stats: int(), int(), float(), float() of the fetched row;
\* float(None) raises TypeError
query_summary_stats(result) ==
    IF result.total_volume = None \/ result.avg_deposit = None
    THEN Raise("TypeError")
    ELSE Return([uniqueUsers       |-> result.unique_users,
                 totalTransactions |-> result.total_transactions,
                 totalVolume       |-> result.total_volume[1],
                 avgDeposit        |-> result.avg_deposit[1]])

\* bucket_order.index(x)
BucketIndex(x) == (CHOOSE i \in DOMAIN bucket_order : bucket_order[i] = x) - 1

RECURSIVE InsertBucket(_, _)
\* insert b after every element of the sorted list whose key is <= its own
InsertBucket(sorted, b) ==
    IF sorted = <<>> THEN <<b>>
    ELSE IF BucketIndex(Head(sorted).range) <= BucketIndex(b.range)
         THEN <<Head(sorted)>> \o InsertBucket(Tail(sorted), b)
         ELSE <<b>> \o sorted

RECURSIVE SortBuckets(_)
\* buckets.sort(key=lambda x: bucket_order.index(x['range'])), a stable sort
SortBuckets(buckets) ==
    IF buckets = <<>> THEN <<>>
    ELSE InsertBucket(SortBuckets(SubSeq(buckets, 1, Len(buckets) - 1)), buckets[Len(buckets)])

\* the unsorted list comprehension alone
BucketsUnsorted(results) ==
    Return([i \in DOMAIN results |-> [range |-> results[i][1], count |-> results[i][2]]])

\* query_buckets: the list comprehension, then the sort
query_buckets(results) ==
    Return(SortBuckets([i \in DOMAIN results |-> [range |-> results[i][1], count |-> results[i][2]]]))

\* the list comprehension of query_top_by_frequency / query_top_by_volume;
\* float(None) raises TypeError
InstitutionList(results) ==
    IF \E i \in DOMAIN results : results[i][3] = None
    THEN Raise("TypeError")
    ELSE Return([i \in DOMAIN results |->
                    [name   |-> Strip(results[i][1]),
                     count  |-> results[i][2],
                     volume |-> results[i][3][1]]])

query_top_by_frequency(results) == InstitutionList(results)

query_top_by_volume(results) == InstitutionList(results)

----------------------------------------------------------------------------
(* The cache builder: one range's snapshot, and the dict it is stored in *)

NoFailure == "none"
Queries == {"summary", "buckets", "topByFrequency", "topByVolume"}

\* the dict literal of query_all_data, its four calls evaluated in order; `fail`
\* names the query whose cursor.execute raises (the data source is unreachable
\* or rejects it), sres..vres are the rows the data source returns
RangeSnapshot(fail, sres, bres, fres, vres) ==
    LET s == IF fail = "summary" THEN Raise("QueryError") ELSE query_summary_stats(sres)
        b == IF fail = "buckets" THEN Raise("QueryError") ELSE query_buckets(bres)
        f == IF fail = "topByFrequency" THEN Raise("QueryError") ELSE query_top_by_frequency(fres)
        v == IF fail = "topByVolume" THEN Raise("QueryError") ELSE query_top_by_volume(vres)
    IN IF ~s.ok THEN s
       ELSE IF ~b.ok THEN b
       ELSE IF ~f.ok THEN f
       ELSE IF ~v.ok THEN v
       ELSE Return([summary        |-> s.val[1],
                    buckets        |-> b.val[1],
                    topByFrequency |-> f.val[1],
                    topByVolume    |-> v.val[1]])

\* a dict that appends without looking for the key
DictAppend(d, k, v) == Append(d, [key |-> k, value |-> v])

\* d[k] = v on a dict kept as its items in insertion order: an existing key
\* keeps its place and takes the new value
DictSet(d, k, v) ==
    IF \E i \in DOMAIN d : d[i].key = k
    THEN [i \in DOMAIN d |-> IF d[i].key = k THEN [key |-> k, value |-> v] ELSE d[i]]
    ELSE Append(d, [key |-> k, value |-> v])

----------------------------------------------------------------------------
(* json.dumps(data_cache, indent=12) *)

IndentWidth == 12

Indent(level) == Repeat(<<" ">>, IndentWidth * level)

RECURSIVE JsonEscape(_)
\* the escapes of json's string encoder that the modelled characters need
JsonEscape(s) ==
    IF s = <<>> THEN <<>>
    ELSE (CASE Head(s) = "\"" -> <<"\\", "\"">>
            [] Head(s) = "\\" -> <<"\\", "\\">>
            [] Head(s) = "\n" -> <<"\\", "n">>
            [] Head(s) = "\t" -> <<"\\", "t">>
            [] OTHER -> <<Head(s)>>) \o JsonEscape(Tail(s))

JsonStr(s) == <<"\"">> \o JsonEscape(s) \o <<"\"">>

RECURSIVE JoinLines(_, _)
\* the items of a container, each on its own line at `level`, separated by ','
JoinLines(level, items) ==
    IF items = <<>> THEN <<>>
    ELSE <<"\n">> \o Indent(level) \o Head(items)
         \o (IF Len(items) > 1 THEN <<",">> ELSE <<>>) \o JoinLines(level, Tail(items))

\* a dict whose enclosing line is at `level`; items are <<key, encoded value>>
JsonObject(level, items) ==
    IF items = <<>> THEN <<"{", "}">>
    ELSE <<"{">>
         \o JoinLines(level + 1, [i \in DOMAIN items |-> JsonStr(items[i][1]) \o <<":", " ">> \o items[i][2]])
         \o <<"\n">> \o Indent(level) \o <<"}">>

\* a list whose enclosing line is at `level`; items are encoded values
JsonArray(level, items) ==
    IF items = <<>> THEN <<"[", "]">>
    ELSE <<"[">> \o JoinLines(level + 1, items) \o <<"\n">> \o Indent(level) \o <<"]">>

RECURSIVE FracDigits(_, _, _)
\* the decimal digits of rem/d, at most k of them
FracDigits(rem, d, k) ==
    IF rem = 0 \/ k = 0 THEN <<>>
    ELSE <<Digits[((rem * 10) \div d) + 1]>> \o FracDigits((rem * 10) % d, d, k - 1)

\* float.__repr__ of n/d: exact when the decimal expansion ends within 17
\* significant digits (the longest repr of a double), cut there otherwise
JsonFloat(r) ==
    LET a == IF r.n < 0 THEN -r.n ELSE r.n
        q == a \div r.d
        m == a % r.d
    IN (IF r.n < 0 THEN <<"-">> ELSE <<>>) \o NatStr(q) \o <<".">>
       \o (IF m = 0 THEN <<"0">> ELSE FracDigits(m, r.d, 17 - Len(NatStr(q))))

JsonSummary(level, s) ==
    JsonObject(level,
        << <<(<<"u", "n", "i", "q", "u", "e", "U", "s", "e", "r", "s">>), IntStr(s.uniqueUsers)>>,
           <<(<<"t", "o", "t", "a", "l", "T", "r", "a", "n", "s", "a", "c", "t", "i", "o", "n", "s">>),
             IntStr(s.totalTransactions)>>,
           <<(<<"t", "o", "t", "a", "l", "V", "o", "l", "u", "m", "e">>), JsonFloat(s.totalVolume)>>,
           <<(<<"a", "v", "g", "D", "e", "p", "o", "s", "i", "t">>), JsonFloat(s.avgDeposit)>> >>)

JsonBucket(level, b) ==
    JsonObject(level,
        << <<(<<"r", "a", "n", "g", "e">>), JsonStr(b.range)>>,
           <<(<<"c", "o", "u", "n", "t">>), IntStr(b.count)>> >>)

JsonInstitution(level, x) ==
    JsonObject(level,
        << <<(<<"n", "a", "m", "e">>), JsonStr(x.name)>>,
           <<(<<"c", "o", "u", "n", "t">>), IntStr(x.count)>>,
           <<(<<"v", "o", "l", "u", "m", "e">>), JsonFloat(x.volume)>> >>)

JsonSnapshot(level, v) ==
    JsonObject(level,
        << <<(<<"s", "u", "m", "m", "a", "r", "y">>), JsonSummary(level + 1, v.summary)>>,
           <<(<<"b", "u", "c", "k", "e", "t", "s">>),
             JsonArray(level + 1, [i \in DOMAIN v.buckets |-> JsonBucket(level + 2, v.buckets[i])])>>,
           <<(<<"t", "o", "p", "B", "y", "F", "r", "e", "q", "u", "e", "n", "c", "y">>),
             JsonArray(level + 1,
                 [i \in DOMAIN v.topByFrequency |-> JsonInstitution(level + 2, v.topByFrequency[i])])>>,
           <<(<<"t", "o", "p", "B", "y", "V", "o", "l", "u", "m", "e">>),
             JsonArray(level + 1,
                 [i \in DOMAIN v.topByVolume |-> JsonInstitution(level + 2, v.topByVolume[i])])>> >>)

\* json.dumps(data_cache, indent=12)
JsonDumps(cache) ==
    JsonObject(0, [i \in DOMAIN cache |-> <<cache[i].key, JsonSnapshot(1, cache[i].value)>>])

----------------------------------------------------------------------------
(* The report injector: update_html_file *)

start_marker ==
    <<"c", "o", "n", "s", "t", " ", "d", "a", "t", "a", "C", "a", "c", "h", "e", " ", "=", " ", "{">>

end_marker == <<" ", " ", " ", " ", " ", " ", " ", " ", "}", ";">>

\* end_idx as it would be without the added length
EndIdxBare(html_content, start_idx) == Find(html_content, end_marker, start_idx)

\* end_idx = html_content.find(end_marker, start_idx) + len(end_marker)
EndIdx(html_content, start_idx) == Find(html_content, end_marker, start_idx) + Len(end_marker)

\* a guard that looks at end_idx only
MarkersMissingEndOnly(start_idx, end_idx) == end_idx = -1

\* if start_idx == -1 or end_idx == -1
MarkersMissing(start_idx, end_idx) == start_idx = -1 \/ end_idx = -1

\* f"const dataCache = {json.dumps(data_cache, indent=12)[:-1]}        }};"
NewDataCache(cache) ==
    <<"c", "o", "n", "s", "t", " ", "d", "a", "t", "a", "C", "a", "c", "h", "e", " ", "=", " ">>
    \o SliceTo(JsonDumps(cache), -1)
    \o <<" ", " ", " ", " ", " ", " ", " ", " ", "}", ";">>

\* update_html_file on a file holding html_content: either ValueError before
\* the file is opened for writing, or the text written to it
update_html_file(html_content, cache) ==
    LET start_idx == Find(html_content, start_marker, 0)
        end_idx   == EndIdx(html_content, start_idx)
    IN IF MarkersMissing(start_idx, end_idx)
       THEN Raise("ValueError")
       ELSE Return(SliceTo(html_content, start_idx) \o NewDataCache(cache)
                   \o SliceFrom(html_content, end_idx))

----------------------------------------------------------------------------
(* Inputs of the model *)

\* the runs' dates: FirstToday is 2025-08-01, and NumDays days from it
FirstToday == 739464
NumDays == 130
MaxRows == 3
MaxPieces == 3
MaxRuns == 2

NoExc == [type |-> "none", stage |-> "none"]
NoRet == [fn |-> "none", out |-> Raise("none")]

Row(id, prn, amount, name, post) ==
    [id |-> id, prn |-> prn, amount |-> amount, name |-> name, post |-> post]

\* rows the aggregator runs draw their tables from: amounts in most buckets,
\* a negative and a missing amount, a missing and an unstripped name, two
\* rows equal in every column, a row outside November 2025
AggPool ==
    { Row(1, 1, Some(100),  Some(<<"a">>),           <<2025, 11, 3>>),
      Row(2, 2, Some(600),  Some(<<"a">>),           <<2025, 11, 10>>),
      Row(3, 1, Some(3000), Some(<<" ", "b", " ">>), <<2025, 11, 30>>),
      Row(4, 3, Some(-5),   None,                    <<2025, 11, 1>>),
      Row(5, 2, None,       Some(<<"c">>),           <<2025, 11, 15>>),
      Row(6, 3, Some(250),  Some(<<"c">>),           <<2025, 10, 31>>),
      Row(7, 1, Some(1200), Some(<<"b">>),           <<2025, 11, 20>>),
      Row(8, 1, Some(100),  Some(<<"a">>),           <<2025, 11, 3>>) }

AggTables == {t \in SUBSET AggPool : Cardinality(t) <= MaxRows}

\* rows the full runs draw their tables from: one in the middle of each month
RunPool ==
    { Row(1, 1, Some(100),  Some(<<"a">>), <<2025, 7, 15>>),
      Row(2, 1, Some(300),  Some(<<"a">>), <<2025, 8, 15>>),
      Row(3, 2, Some(800),  Some(<<"b">>), <<2025, 9, 15>>),
      Row(4, 1, Some(1600), Some(<<"a">>), <<2025, 10, 15>>),
      Row(5, 2, Some(2600), None,          <<2025, 11, 15>>) }

RunTables == {RunPool, RunPool \ {Row(3, 2, Some(800), Some(<<"b">>), <<2025, 9, 15>>)}, {}}

\* a report with one data block, and one without the opening marker
RunArtifacts ==
    { <<"<", "s", ">", "\n">> \o start_marker \o <<"\n", "o", "l", "d", "\n">> \o end_marker
         \o <<"\n", "<", "/", "s", ">">>,
      <<"<", "s", ">", "\n">> \o end_marker \o <<"\n", "<", "/", "s", ">">> }

\* pieces of text the injector runs build their artifacts from
Pieces ==
    { start_marker,
      end_marker,
      <<"\n", "x", ":", " ", "1", "\n">>,
      <<" ", " ", " ", " ", "}", ";">>,
      <<"<", "p", ">">> }

RECURSIVE TextsOf(_)
\* the concatenations of at most n pieces
TextsOf(n) ==
    IF n = 0 THEN {<<>>}
    ELSE LET shorter == TextsOf(n - 1) IN shorter \cup {t \o p : t \in shorter, p \in Pieces}

Artifacts == TextsOf(MaxPieces)

\* '2025-11-01', '2025-11-30'
NovStart == <<"2", "0", "2", "5", "-", "1", "1", "-", "0", "1">>
NovEnd == <<"2", "0", "2", "5", "-", "1", "1", "-", "3", "0">>

\* the snapshot of November 2025 over a table whose queries have one result set
NovemberSnapshot(tbl) ==
    RangeSnapshot(NoFailure,
                  SummaryRow(tbl, NovStart, NovEnd),
                  CHOOSE r \in BucketRows(tbl, NovStart, NovEnd) : TRUE,
                  CHOOSE r \in TopFrequencyRows(tbl, NovStart, NovEnd) : TRUE,
                  CHOOSE r \in TopVolumeRows(tbl, NovStart, NovEnd) : TRUE).val[1]

\* an institution name that holds the text of the closing marker
MarkerName == <<"a">> \o end_marker \o <<"b">>

\* the Caches the injector runs are given: the empty one, and November 2025
\* over one row, the institution's name plain or holding the closing marker
InjectCaches ==
    { <<>>,
      DictSet(<<>>, CacheKey(NovStart, NovEnd),
              NovemberSnapshot({Row(1, 1, Some(100), Some(<<"a">>), <<2025, 11, 3>>)})),
      DictSet(<<>>, CacheKey(NovStart, NovEnd),
              NovemberSnapshot({Row(1, 1, Some(100), Some(MarkerName), <<2025, 11, 3>>)})) }

----------------------------------------------------------------------------
(* main: connect, plan, build the cache, inject, disconnect *)

InitRun ==
    /\ today \in FirstToday..(FirstToday + NumDays)
    /\ table \in RunTables
    /\ html \in RunArtifacts
    /\ html0 = html
    /\ conn = "none"
    /\ pc = "start"
    /\ date_ranges = <<>>
    /\ idx = 0
    /\ data_cache = <<>>
    /\ writes = 0
    /\ exc = NoExc
    /\ log = <<>>
    /\ ret = NoRet

\* query_all_data up to the loop: connect, plan, empty dict
QueryAllDataBegin ==
    /\ pc = "start"
    /\ \E connected \in BOOLEAN :
          IF connected
          THEN /\ conn' = "open"
               /\ date_ranges' = get_date_ranges(today)
               /\ data_cache' = <<>>
               /\ idx' = 1
               /\ pc' = "loop"
               /\ exc' = exc
          ELSE /\ exc' = [type |-> "ConnectionError", stage |-> "connect"]
               /\ pc' = "except"
               /\ UNCHANGED <<conn, date_ranges, data_cache, idx>>
    /\ UNCHANGED <<today, table, html, html0, writes, log, ret>>

\* an iteration that skips a range whose queries raise
StoreRangeOrSkip(out) ==
    LET r == date_ranges[idx]
    IN /\ data_cache' = IF out.ok THEN DictSet(data_cache, CacheKey(r.start, r.end), out.val[1])
                        ELSE data_cache
       /\ idx' = idx + 1
       /\ UNCHANGED <<pc, exc>>

\* what one iteration does with the outcome of the dict literal
StoreRange(out) ==
    LET r == date_ranges[idx]
    IN IF out.ok
       THEN /\ data_cache' = DictSet(data_cache, CacheKey(r.start, r.end), out.val[1])
            /\ idx' = idx + 1
            /\ UNCHANGED <<pc, exc>>
       ELSE /\ exc' = [type |-> out.err, stage |-> "query"]
            /\ pc' = "except"
            /\ UNCHANGED <<data_cache, idx>>

\* one iteration of the for loop of query_all_data
QueryRange ==
    /\ pc = "loop"
    /\ idx <= Len(date_ranges)
    /\ LET r == date_ranges[idx]
       IN \E fail \in Queries \cup {NoFailure},
             bres \in BucketRows(table, r.start, r.end),
             fres \in TopFrequencyRows(table, r.start, r.end),
             vres \in TopVolumeRows(table, r.start, r.end) :
             StoreRange(RangeSnapshot(fail, SummaryRow(table, r.start, r.end), bres, fres, vres))
    /\ UNCHANGED <<today, table, conn, date_ranges, html, html0, writes, log, ret>>

\* the end of query_all_data: conn.close(); return data_cache
QueryAllDataEnd ==
    /\ pc = "loop"
    /\ idx > Len(date_ranges)
    /\ conn' = "closed"
    /\ pc' = "update"
    /\ UNCHANGED <<today, table, date_ranges, idx, data_cache, html, html0,
                   writes, exc, log, ret>>

\* the file and the call record after update_html_file(data_cache)
UpdateFile(out) ==
    /\ log' = Append(log, [before |-> html, arg |-> data_cache, ok |-> out.ok])
    /\ html' = IF out.ok THEN out.val[1] ELSE html
    /\ writes' = IF out.ok THEN writes + 1 ELSE writes

\* main's call update_html_file(data_cache)
MainUpdate ==
    /\ pc = "update"
    /\ LET out == update_html_file(html, data_cache)
       IN /\ UpdateFile(out)
          /\ IF out.ok
             THEN pc' = "done" /\ exc' = exc
             ELSE pc' = "except" /\ exc' = [type |-> out.err, stage |-> "inject"]
    /\ UNCHANGED <<today, table, conn, date_ranges, idx, data_cache, html0, ret>>

\* main's except clause: print the error, raise
MainExcept ==
    /\ pc = "except"
    /\ pc' = "raised"
    /\ UNCHANGED <<today, table, conn, date_ranges, idx, data_cache, html, html0,
                   writes, exc, log, ret>>

Next == QueryAllDataBegin \/ QueryRange \/ QueryAllDataEnd \/ MainUpdate \/ MainExcept

Spec == InitRun /\ [][Next]_vars

----------------------------------------------------------------------------
(* update_html_file alone, run repeatedly with the same Cache *)

InitInject ==
    /\ today = FirstToday
    /\ table = {}
    /\ html \in Artifacts
    /\ html0 = html
    /\ conn = "none"
    /\ pc = "inject"
    /\ date_ranges = <<>>
    /\ idx = 0
    /\ data_cache \in InjectCaches
    /\ writes = 0
    /\ exc = NoExc
    /\ log = <<>>
    /\ ret = NoRet

\* one call update_html_file(data_cache); an error goes to the caller
InjectCall ==
    /\ pc = "inject"
    /\ Len(log) < MaxRuns
    /\ LET out == update_html_file(html, data_cache)
       IN /\ UpdateFile(out)
          /\ exc' = IF out.ok THEN NoExc ELSE [type |-> out.err, stage |-> "inject"]
    /\ UNCHANGED <<today, table, conn, pc, date_ranges, idx, data_cache, html0, ret>>

NextInject == InjectCall

SpecInject == InitInject /\ [][NextInject]_vars

----------------------------------------------------------------------------
(* The aggregator alone: each query function on a table, for November 2025 *)

InitAgg ==
    /\ today = FirstToday
    /\ table \in AggTables
    /\ html = <<>>
    /\ html0 = <<>>
    /\ conn = "open"
    /\ pc = "aggregate"
    /\ date_ranges = get_date_ranges(today)
    /\ idx = Len(date_ranges)
    /\ data_cache = <<>>
    /\ writes = 0
    /\ exc = NoExc
    /\ log = <<>>
    /\ ret = NoRet

AggFrame == UNCHANGED <<today, table, conn, pc, date_ranges, idx, data_cache, html,
                        html0, writes, exc, log>>

CallSummary ==
    /\ pc = "aggregate"
    /\ LET r == date_ranges[idx]
       IN ret' = [fn |-> "query_summary_stats",
                  out |-> query_summary_stats(SummaryRow(table, r.start, r.end))]
    /\ AggFrame

CallBuckets ==
    /\ pc = "aggregate"
    /\ LET r == date_ranges[idx]
       IN \E bres \in BucketRows(table, r.start, r.end) :
             ret' = [fn |-> "query_buckets", out |-> query_buckets(bres)]
    /\ AggFrame

CallTopByFrequency ==
    /\ pc = "aggregate"
    /\ LET r == date_ranges[idx]
       IN \E fres \in TopFrequencyRows(table, r.start, r.end) :
             ret' = [fn |-> "query_top_by_frequency", out |-> query_top_by_frequency(fres)]
    /\ AggFrame

CallTopByVolume ==
    /\ pc = "aggregate"
    /\ LET r == date_ranges[idx]
       IN \E vres \in TopVolumeRows(table, r.start, r.end) :
             ret' = [fn |-> "query_top_by_volume", out |-> query_top_by_volume(vres)]
    /\ AggFrame

\* the four calls of one iteration of query_all_data, none of them failing to connect
CallSnapshot ==
    /\ pc = "aggregate"
    /\ LET r == date_ranges[idx]
       IN \E bres \in BucketRows(table, r.start, r.end),
             fres \in TopFrequencyRows(table, r.start, r.end),
             vres \in TopVolumeRows(table, r.start, r.end) :
             ret' = [fn |-> "snapshot",
                     out |-> RangeSnapshot(NoFailure, SummaryRow(table, r.start, r.end),
                                           bres, fres, vres)]
    /\ AggFrame

NextAgg == CallSummary \/ CallBuckets \/ CallTopByFrequency \/ CallTopByVolume \/ CallSnapshot

SpecAgg == InitAgg /\ [][NextAgg]_vars

----------------------------------------------------------------------------
(* Properties *)

\* the 0-based positions at which sub occurs in s
Occurrences(s, sub) ==
    {i \in 0..(Len(s) - Len(sub)) : SubSeq(s, i + 1, i + Len(sub)) = sub}

Least(S) == CHOOSE i \in S : \A j \in S : i <= j

HasOpening(s) == Occurrences(s, start_marker) # {}

\* the closing markers at or after the first opening marker
ClosingsAfterOpening(s) ==
    {i \in Occurrences(s, end_marker) : i >= Least(Occurrences(s, start_marker))}

LastCall == log[Len(log)]

\* C1: update_html_file on an artifact with the opening marker but no closing
\* marker at or after it fails and leaves the artifact as it was.
C1_NoClosingFailsUnwritten ==
    (/\ Len(log) >= 1
     /\ HasOpening(LastCall.before)
     /\ ClosingsAfterOpening(LastCall.before) = {})
        => (~LastCall.ok /\ html = LastCall.before)

\* C2: no run ends with the connection still open.
C2_ConnectionReleased == pc \in {"done", "raised"} => conn # "open"

ZeroSummary ==
    [uniqueUsers |-> 0, totalTransactions |-> 0, totalVolume |-> Rat(0, 1), avgDeposit |-> Rat(0, 1)]

\* C3: over a range in which no row matches, query_summary_stats returns
\* {0, 0, 0.0, 0.0} and raises nothing.
C3_ZeroRowsGiveZeros ==
    (/\ ret.fn = "query_summary_stats"
     /\ Matching(table, date_ranges[idx].start, date_ranges[idx].end) = {})
        => (ret.out.ok /\ ret.out.val = Some(ZeroSummary))

\* C4: on an artifact with both markers, a second update_html_file with the
\* same Cache leaves the artifact as the first left it.
C4_SecondRunChangesNothing ==
    (/\ Len(log) >= 2
     /\ HasOpening(log[1].before)
     /\ ClosingsAfterOpening(log[1].before) # {}
     /\ log[1].ok
     /\ log[2].ok)
        => html = log[2].before

PlannedKeys == {CacheKey(date_ranges[i].start, date_ranges[i].end) : i \in DOMAIN date_ranges}

CacheBuilt == pc \in {"update", "done"}

\* C5 as stated: the Cache query_all_data returns has seven entries, one per
\* planned range, the seven keys pairwise distinct.
C5_SevenDistinctKeys ==
    CacheBuilt =>
        /\ Len(data_cache) = 7
        /\ \A i, j \in DOMAIN date_ranges :
              i # j => CacheKey(date_ranges[i].start, date_ranges[i].end)
                       # CacheKey(date_ranges[j].start, date_ranges[j].end)

\* '2025-08-31' and '2025-10-31': the days on which last_30 is a calendar month
Aug31 == <<"2", "0", "2", "5", "-", "0", "8", "-", "3", "1">>
Oct31 == <<"2", "0", "2", "5", "-", "1", "0", "-", "3", "1">>

\* C5 amended: the Cache query_all_data returns has one entry per distinct
\* planned key; two planned ranges share a key only when they have the same
\* bounds, which happens exactly on 2025-08-31 and 2025-10-31 (last_30 is then
\* august_2025 or october_2025) and leaves six entries; on every other date
\* there are seven.
C5_OneEntryPerDistinctKey ==
    CacheBuilt =>
        /\ {data_cache[i].key : i \in DOMAIN data_cache} = PlannedKeys
        /\ \A i, j \in DOMAIN data_cache : i # j => data_cache[i].key # data_cache[j].key
        /\ \A i, j \in DOMAIN date_ranges :
              CacheKey(date_ranges[i].start, date_ranges[i].end)
                 = CacheKey(date_ranges[j].start, date_ranges[j].end)
              => /\ date_ranges[i].start = date_ranges[j].start
                 /\ date_ranges[i].end = date_ranges[j].end
        /\ Len(data_cache) = IF Strftime(today) \in {Aug31, Oct31} THEN 6 ELSE 7

C5_Witness == CacheBuilt /\ Strftime(today) = Aug31 /\ Len(data_cache) = 6

\* the Cache's serialization as it stands between the two markers
CacheBody(cache) == SubSeq(JsonDumps(cache), 2, Len(JsonDumps(cache)) - 1)

\* C6: on an artifact with the opening marker and a closing marker after it,
\* update_html_file writes the text before the first opening marker, then
\* opening marker, the Cache's serialization, closing marker, then the text
\* after the first closing marker found from the opening marker.
C6_ReplacesExactlyTheBlock ==
    (/\ Len(log) >= 1
     /\ HasOpening(LastCall.before)
     /\ ClosingsAfterOpening(LastCall.before) # {})
        => LET old   == LastCall.before
               first == Least(Occurrences(old, start_marker))
               close == Least(ClosingsAfterOpening(old))
           IN /\ LastCall.ok
              /\ html = SubSeq(old, 1, first)
                        \o start_marker \o CacheBody(LastCall.arg) \o end_marker
                        \o SubSeq(old, close + Len(end_marker) + 1, Len(old))

C6_Witness ==
    /\ Len(log) >= 1
    /\ HasOpening(LastCall.before)
    /\ ClosingsAfterOpening(LastCall.before) # {}
    /\ Least(Occurrences(LastCall.before, start_marker)) > 0
    /\ Least(ClosingsAfterOpening(LastCall.before)) + Len(end_marker) < Len(LastCall.before)
    /\ LastCall.arg # <<>>
    /\ html # LastCall.before

QueryFailed == exc.stage \in {"connect", "query"}

\* C7: when the connection or a query of any range fails, main goes to its
\* except clause and re-raises, update_html_file is never called and the
\* artifact is never written; the artifact is written only with a Cache that
\* holds every planned range, after every range was queried without error.
C7_AllOrNothing ==
    /\ [](/\ QueryFailed => (/\ pc \in {"except", "raised"}
                             /\ log = <<>>
                             /\ writes = 0
                             /\ html = html0)
          /\ pc = "done" => exc = NoExc
          /\ \A i \in DOMAIN log :
                /\ ~QueryFailed
                /\ Len(date_ranges) = 7
                /\ idx = Len(date_ranges) + 1
                /\ PlannedKeys \subseteq {log[i].arg[k].key : k \in DOMAIN log[i].arg}
          /\ (writes > 0 \/ html # html0) => log # <<>>)
    /\ [][pc = "except" => pc' = "raised"]_vars

C7_Witness ==
    /\ pc = "raised"
    /\ exc.stage = "query"
    /\ data_cache # <<>>
    /\ conn = "open"

\* C8: update_html_file on an artifact without the opening marker raises
\* before any write: the artifact is as it was, whether or not the closing
\* marker occurs in it.
C8_NoOpeningFailsUnwritten ==
    (Len(log) >= 1 /\ ~HasOpening(LastCall.before))
        => (/\ ~LastCall.ok
            /\ exc.type = "ValueError"
            /\ writes = 0
            /\ html = LastCall.before)

C8_Witness ==
    /\ Len(log) >= 1
    /\ ~HasOpening(LastCall.before)
    /\ Occurrences(LastCall.before, end_marker) # {}
    /\ Len(LastCall.before) > Len(end_marker)

\* the least amount of the CASE expression's range that is labelled l
LowerBound(l) ==
    Least({a \in {0, 250, 500, 750, 1000, 1500, 2500} : BucketOf(Some(a)) = l})

\* the rows of the queried range
RangeRows == Matching(table, date_ranges[idx].start, date_ranges[idx].end)

\* C9: query_buckets returns exactly the buckets some matching row falls in,
\* each once with its count, in ascending order of the bucket's lower amount
\* bound, whatever order the data source returned them in; amounts
\* [100, 600, 3000] give [$1-$250: 1, $500-$750: 1, $2,500+: 1].
C9_BucketsAscending ==
    ret.fn = "query_buckets" =>
        LET bs == ret.out.val[1]
        IN /\ ret.out.ok
           /\ {bs[i].range : i \in DOMAIN bs} = {BucketOf(r.amount) : r \in RangeRows}
           /\ \A i \in DOMAIN bs :
                 /\ bs[i].count = Cardinality({r \in RangeRows : BucketOf(r.amount) = bs[i].range})
                 /\ bs[i].count > 0
           /\ \A i, j \in DOMAIN bs : i < j => LowerBound(bs[i].range) < LowerBound(bs[j].range)
           /\ (Cardinality(RangeRows) = 3 /\ {r.amount : r \in RangeRows} = {Some(100), Some(600), Some(3000)})
                 => bs = << [range |-> bucket_order[1], count |-> 1],
                            [range |-> bucket_order[3], count |-> 1],
                            [range |-> bucket_order[7], count |-> 1] >>

C9_Witness ==
    /\ ret.fn = "query_buckets"
    /\ Len(ret.out.val[1]) >= 2
    /\ \E r \in RangeRows : r.amount # None /\ r.amount[1] < 0
    /\ \E r \in RangeRows : r.amount # None /\ r.amount[1] >= 0 /\ r.amount[1] < 2500

\* the rows the catch-all bucket counts
CatchAllRows ==
    {r \in RangeRows : r.amount = None \/ r.amount[1] < 0 \/ r.amount[1] >= 2500}

\* C10: in one snapshot the bucket counts add up to summary.totalTransactions,
\* and the rows whose amount is below 0 or in no bounded range are the ones
\* counted under '$2,500+'.
C10_BucketsPartitionTheRows ==
    (ret.fn = "snapshot" /\ ret.out.ok) =>
        LET snap == ret.out.val[1]
            bs   == snap.buckets
            cnt  == [i \in DOMAIN bs |-> bs[i].count]
        IN /\ SumOver(cnt, DOMAIN bs) = snap.summary.totalTransactions
           /\ snap.summary.totalTransactions = Cardinality(RangeRows)
           /\ \A i \in DOMAIN bs :
                 bs[i].range = bucket_order[7] => bs[i].count = Cardinality(CatchAllRows)
           /\ CatchAllRows # {} => \E i \in DOMAIN bs : bs[i].range = bucket_order[7]

C10_Witness ==
    /\ ret.fn = "snapshot"
    /\ ret.out.ok
    /\ \E r \in RangeRows : r.amount # None /\ r.amount[1] < 0
    /\ Len(ret.out.val[1].buckets) >= 2

====
